---- MODULE Spec2Model ----
(***************************************************************************)
(* Word-frequency analysis pipeline of the two analyzer binaries           *)
(*   src/src/bin/file_parser.rs  (Config::from_args, read_file,            *)
(*                                clean_word, analyze_text, display_stats) *)
(*   src/src/bin/main.rs         (main: the inline pipeline)               *)
(*                                                                         *)
(* A text is a sequence of characters.  A character is a name (a string);  *)
(* the Unicode facts the code depends on (is_alphanumeric, is_whitespace,  *)
(* to_lowercase, len_utf8, the code point) are tabulated below for the     *)
(* characters of the model:                                                *)
(*   "a" "b" "i"   U+0061 U+0062 U+0069   lower-case ASCII letters         *)
(*   "A"           U+0041                 upper-case ASCII letter          *)
(*   "0".."3"                             ASCII digits                     *)
(*   "x"                                  U+0078 (an unparsable number)    *)
(*   "eacute"      U+00E9  (2 bytes)      lower-case letter                *)
(*   "Idot"        U+0130  (2 bytes)      upper-case letter; its lowercase *)
(*                                        is the TWO characters            *)
(*                                        U+0069 U+0307                    *)
(*   "dotabove"    U+0307  (2 bytes)      combining mark (Mn): neither     *)
(*                                        alphabetic nor numeric           *)
(*   "apos"        U+0027                 punctuation                      *)
(*   "sp"          U+0020                 white space                      *)
(* An Option is a sequence of length 0 (None) or 1 (Some).                 *)
(***************************************************************************)
EXTENDS Integers, Sequences, FiniteSets, TLC

VARIABLES files, argv, fp, mn

vars == <<files, argv, fp, mn>>

(***************************************************************************)
(* Bounds                                                                  *)
(***************************************************************************)
\* the largest number of pieces a text is made of
MaxPieces == 3

(***************************************************************************)
(* Characters                                                              *)
(***************************************************************************)
None == <<>>

Some(x) == <<x>>

\* char::is_alphanumeric : Alphabetic or Numeric
is_alphanumeric(c) == c \in {"a", "b", "i", "x", "A", "eacute", "Idot", "0", "1", "2", "3"}

\* char::is_whitespace, the separator of str::split_whitespace
is_whitespace(c) == c = "sp"

\* char::to_lowercase : an iterator of one or more characters
to_lowercase(c) ==
  IF c = "A" THEN <<"a">>
  ELSE IF c = "Idot" THEN <<"i", "dotabove">>
  ELSE <<c>>

\* char::len_utf8 : the number of bytes of the character in a String
len_utf8(c) == IF c \in {"eacute", "Idot", "dotabove"} THEN 2 ELSE 1

\* the Unicode scalar value; Strings compare bytewise, which for UTF-8 is
\* the order of the scalar values
code_point(c) ==
  CASE c = "sp" -> 32
    [] c = "apos" -> 39
    [] c = "0" -> 48
    [] c = "1" -> 49
    [] c = "2" -> 50
    [] c = "3" -> 51
    [] c = "A" -> 65
    [] c = "a" -> 97
    [] c = "b" -> 98
    [] c = "i" -> 105
    [] c = "x" -> 120
    [] c = "eacute" -> 233
    [] c = "Idot" -> 304
    [] c = "dotabove" -> 775

(***************************************************************************)
(* String helpers of the standard library, as the code uses them           *)
(***************************************************************************)
\* str::len : the length in BYTES
RECURSIVE str_len(_)
str_len(s) == IF s = <<>> THEN 0 ELSE len_utf8(Head(s)) + str_len(Tail(s))

\* str::starts_with(char)
str_starts_with(s, c) == Len(s) > 0 /\ s[1] = c

\* str::chars().next()
chars_next(s) == IF s = <<>> THEN None ELSE Some(s[1])

\* str::to_lowercase (no capital sigma among the characters of the model,
\* so the lowercase of a string is the lowercase of its characters)
RECURSIVE str_to_lowercase(_)
str_to_lowercase(s) ==
  IF s = <<>> THEN <<>> ELSE to_lowercase(Head(s)) \o str_to_lowercase(Tail(s))

\* str::trim_matches(|c| !c.is_alphanumeric()) : strips both ends only
RECURSIVE trim_start(_)
trim_start(s) ==
  IF s = <<>> THEN <<>>
  ELSE IF ~is_alphanumeric(Head(s)) THEN trim_start(Tail(s))
  ELSE s

RECURSIVE trim_end(_)
trim_end(s) ==
  IF s = <<>> THEN <<>>
  ELSE IF ~is_alphanumeric(s[Len(s)]) THEN trim_end(SubSeq(s, 1, Len(s) - 1))
  ELSE s

trim_matches(s) == trim_end(trim_start(s))

\* str::split_whitespace : the maximal non-whitespace substrings, in order
RECURSIVE split_from(_, _, _)
split_from(text, cur, acc) ==
  IF text = <<>> THEN (IF cur = <<>> THEN acc ELSE Append(acc, cur))
  ELSE IF is_whitespace(Head(text))
       THEN split_from(Tail(text), <<>>, IF cur = <<>> THEN acc ELSE Append(acc, cur))
       ELSE split_from(Tail(text), Append(cur, Head(text)), acc)

split_whitespace(text) == split_from(text, <<>>, <<>>)

\* str::parse::<usize>().ok() : a non-empty string of decimal digits
digit_value(c) ==
  CASE c = "0" -> 0
    [] c = "1" -> 1
    [] c = "2" -> 2
    [] c = "3" -> 3

RECURSIVE decimal(_, _)
decimal(s, acc) ==
  IF s = <<>> THEN acc ELSE decimal(Tail(s), 10 * acc + digit_value(Head(s)))

parse_usize(s) ==
  IF s # <<>> /\ \A i \in 1..Len(s) : s[i] \in {"0", "1", "2", "3"}
  THEN Some(decimal(s, 0))
  ELSE None

(***************************************************************************)
(* HashMap<String, usize>: a function from its keys to their counts        *)
(***************************************************************************)
HashMap_new == [w \in {} |-> 0]

\* a faulty entry: acc.insert(word, default), which resets a present entry
entry_or_insert_reset(acc, word, default) ==
  [w \in DOMAIN acc \cup {word} |-> IF w = word THEN default ELSE acc[w]]

\* acc.entry(word).or_insert(default) : the map with the entry present
entry_or_insert(acc, word, default) ==
  IF word \in DOMAIN acc THEN acc
  ELSE [w \in DOMAIN acc \cup {word} |-> IF w = word THEN default ELSE acc[w]]

\* *acc.entry(word).or_insert(0) += 1
count_word(acc, word) ==
  LET m == entry_or_insert(acc, word, 0)
  IN  [m EXCEPT ![word] = @ + 1]

\* the orders in which a HashMap with the default RandomState hasher may
\* iterate over its entries: unspecified, so any order of the keys
iter_orders(freqs) ==
  LET n == Cardinality(DOMAIN freqs)
  IN  {o \in [1..n -> DOMAIN freqs] : \A i, j \in 1..n : o[i] = o[j] => i = j}

\* a faulty total: freqs.values().count(), the number of entries
values_count(order, freqs) == Len(order)

\* freqs.values().sum() over one iteration order
RECURSIVE values_sum(_, _)
values_sum(order, freqs) ==
  IF order = <<>> THEN 0 ELSE freqs[Head(order)] + values_sum(Tail(order), freqs)

\* freqs.iter().max_by_key(|&(_, count)| count) over one iteration order:
\* of several maximal elements Iterator::max_by_key returns the LAST
RECURSIVE max_from(_, _, _)
max_from(order, freqs, best) ==
  IF order = <<>> THEN best
  ELSE IF best = None \/ freqs[Head(order)] >= best[1].count
       THEN max_from(Tail(order), freqs,
                     Some([word |-> Head(order), count |-> freqs[Head(order)]]))
       ELSE max_from(Tail(order), freqs, best)

\* a faulty selection: min_by_key, which returns the FIRST minimal element
RECURSIVE min_from(_, _, _)
min_from(order, freqs, best) ==
  IF order = <<>> THEN best
  ELSE IF best = None \/ freqs[Head(order)] < best[1].count
       THEN min_from(Tail(order), freqs,
                     Some([word |-> Head(order), count |-> freqs[Head(order)]]))
       ELSE min_from(Tail(order), freqs, best)

min_by_key(order, freqs) == min_from(order, freqs, None)

max_by_key(order, freqs) == max_from(order, freqs, None)

(***************************************************************************)
(* file_parser.rs                                                          *)
(***************************************************************************)
MinLengthFlag == <<"--min-length">>

StartsWithFlag == <<"--starts-with">>

\* the flag loop of Config::from_args (and, verbatim, of main.rs): a flag
\* takes the next argument as its value, a flag without a value ends the
\* loop, anything else is skipped
RECURSIVE parse_flags(_, _)
parse_flags(rest, cfg) ==
  IF rest = <<>> THEN cfg
  ELSE IF Head(rest) = MinLengthFlag
       THEN IF Len(rest) >= 2
            THEN parse_flags(SubSeq(rest, 3, Len(rest)),
                             [cfg EXCEPT !.min_length = parse_usize(rest[2])])
            ELSE cfg
  ELSE IF Head(rest) = StartsWithFlag
       THEN IF Len(rest) >= 2
            THEN parse_flags(SubSeq(rest, 3, Len(rest)),
                             [cfg EXCEPT !.starts_with = chars_next(rest[2])])
            ELSE cfg
  ELSE parse_flags(Tail(rest), cfg)

NoConfig == [file_path |-> <<>>, min_length |-> None, starts_with |-> None]

\* Config::from_args : Err (None here) when the file path is missing;
\* args[1] is the program name, args[2] the file path
from_args(args) ==
  IF Len(args) < 2 THEN None
  ELSE Some(parse_flags(SubSeq(args, 3, Len(args)),
                        [file_path |-> args[2], min_length |-> None, starts_with |-> None]))

\* read_file : Err (None here) when the file cannot be read
read_file(fs, path) == IF path \in DOMAIN fs THEN Some(fs[path]) ELSE None

\* clean_word : keep the alphanumeric characters, lowercase each of them
RECURSIVE clean_word(_)
clean_word(word) ==
  IF word = <<>> THEN <<>>
  ELSE IF is_alphanumeric(Head(word))
       THEN to_lowercase(Head(word)) \o clean_word(Tail(word))
       ELSE clean_word(Tail(word))

\* the filtering closure of analyze_text (and, verbatim, of main.rs)
long_enough(min_length, word) == min_length = None \/ str_len(word) >= min_length[1]

starts_correct(starts_with, word) ==
  starts_with = None \/ str_starts_with(word, starts_with[1])

filter(min_length, starts_with, word) ==
  long_enough(min_length, word) /\ starts_correct(starts_with, word)

\* .map(clean_word) over the candidate tokens
clean_words(ws) == [i \in 1..Len(ws) |-> clean_word(ws[i])]

\* .filter(|w| !w.is_empty()).filter(|w| filter(w))
keep_words(min_length, starts_with, ws) ==
  LET nonempty(w) == w # <<>>
      passes(w) == filter(min_length, starts_with, w)
  IN  SelectSeq(SelectSeq(ws, nonempty), passes)

\* .fold(HashMap::new(), |mut acc, word| { *acc.entry(word).or_insert(0) += 1; acc })
RECURSIVE fold_counts(_, _)
fold_counts(ws, acc) ==
  IF ws = <<>> THEN acc ELSE fold_counts(Tail(ws), count_word(acc, Head(ws)))

\* the tokens analyze_text hands to the fold
analyze_tokens(text, config) ==
  keep_words(config.min_length, config.starts_with,
             clean_words(split_whitespace(text)))

analyze_text(text, config) == fold_counts(analyze_tokens(text, config), HashMap_new)

\* display_stats over one iteration order of the map: the three values it
\* computes and the branch it prints
display_stats(freqs, order) ==
  LET most_common == max_by_key(order, freqs)
  IN  [total_words  |-> values_sum(order, freqs),
       unique_words |-> Cardinality(DOMAIN freqs),
       most_common  |-> most_common,
       message      |-> IF most_common # None THEN "Most common word"
                        ELSE "No words found after filtering."]

(***************************************************************************)
(* main.rs                                                                 *)
(***************************************************************************)
\* .map(|w| w.trim_matches(|c: char| !c.is_alphanumeric())).map(|w| w.to_lowercase())
main_normalize(word) == str_to_lowercase(trim_matches(word))

\* the two .map(...) over the candidate tokens
main_normalized(ws) == [i \in 1..Len(ws) |-> main_normalize(ws[i])]

\* the tokens the inline pipeline of main hands to for_each
main_tokens(text, min_length, starts_with) ==
  keep_words(min_length, starts_with, main_normalized(split_whitespace(text)))

\* .for_each(|w| { *freqs.entry(w).or_insert(0) += 1; })
main_freqs(text, min_length, starts_with) ==
  fold_counts(main_tokens(text, min_length, starts_with), HashMap_new)

(***************************************************************************)
(* Inputs                                                                  *)
(***************************************************************************)
Program == <<"analyzer">>

InputPath == <<"input.txt">>

PermutedPath == <<"permuted.txt">>

MissingPath == <<"missing.txt">>

\* the flags after the file path
FlagVectors ==
  { <<>>,
    <<MinLengthFlag, <<"0">>>>,
    <<MinLengthFlag, <<"2">>>>,
    <<MinLengthFlag, <<"3">>>>,
    <<MinLengthFlag, <<"x">>>>,
    <<MinLengthFlag>>,
    <<StartsWithFlag, <<"a">>>>,
    <<StartsWithFlag, <<"A", "b">>>>,
    <<StartsWithFlag, <<>>>>,
    <<<<"--verbose">>, MinLengthFlag, <<"1", "0">>>>,
    <<MinLengthFlag, <<"2">>, StartsWithFlag, <<"a">>>> }

\* the pieces a text is made of: candidate tokens and white space
Pieces ==
  { <<"a">>, <<"b">>, <<"A">>, <<"eacute">>, <<"Idot">>,
    <<"a", "apos", "b">>, <<"apos">>, <<"sp">> }

PieceSeqs == UNION {[1..n -> Pieces] : n \in 0..MaxPieces}

\* the pieces with one space between them
RECURSIVE Join(_)
Join(ps) ==
  IF ps = <<>> THEN <<>>
  ELSE IF Len(ps) = 1 THEN ps[1]
  ELSE ps[1] \o <<"sp">> \o Join(Tail(ps))

Bijections(n) == {q \in [1..n -> 1..n] : \A i, j \in 1..n : q[i] = q[j] => i = j}

NoRun == [pc |-> "start", config |-> NoConfig, text |-> <<>>,
          freqs |-> HashMap_new, report |-> None]

NoMain == [pc |-> "start", min_length |-> None, starts_with |-> None,
           freqs |-> HashMap_new, report |-> None]

\* one invocation of each binary on the same file with the same flags
Init ==
  \E ps \in PieceSeqs, flags \in FlagVectors, head \in {<<>>, <<Program>>, <<Program, InputPath>>, <<Program, MissingPath>>} :
    /\ (Len(head) < 2 \/ head[2] = MissingPath) => flags = <<>>
    /\ files = (InputPath :> Join(ps))
    /\ argv = (1 :> head \o flags)
    /\ fp = (1 :> NoRun)
    /\ mn = NoMain

\* two invocations of file_parser with the same flags: on a file and on a
\* file holding the same pieces in another order
InitPerm ==
  \E ps \in PieceSeqs, flags \in FlagVectors :
    \E q \in Bijections(Len(ps)) :
      /\ files = (InputPath :> Join(ps)) @@ (PermutedPath :> Join([i \in 1..Len(ps) |-> ps[q[i]]]))
      /\ argv = (1 :> <<Program, InputPath>> \o flags) @@ (2 :> <<Program, PermutedPath>> \o flags)
      /\ fp = (1 :> NoRun) @@ (2 :> NoRun)
      /\ mn = NoMain

(***************************************************************************)
(* Actions: the steps of main() of file_parser.rs, for invocation r        *)
(***************************************************************************)
FromArgs(r) ==
  /\ fp[r].pc = "start"
  /\ LET cfg == from_args(argv[r])
     IN  fp' = [fp EXCEPT ![r] =
                  IF cfg = None THEN [@ EXCEPT !.pc = "exit1"]
                  ELSE [@ EXCEPT !.pc = "configured", !.config = cfg[1]]]
  /\ UNCHANGED <<files, argv, mn>>

ReadFile(r) ==
  /\ fp[r].pc = "configured"
  /\ LET content == read_file(files, fp[r].config.file_path)
     IN  fp' = [fp EXCEPT ![r] =
                  IF content = None THEN [@ EXCEPT !.pc = "exit1"]
                  ELSE [@ EXCEPT !.pc = "loaded", !.text = content[1]]]
  /\ UNCHANGED <<files, argv, mn>>

AnalyzeText(r) ==
  /\ fp[r].pc = "loaded"
  /\ fp' = [fp EXCEPT ![r] = [@ EXCEPT !.pc = "analyzed",
                                        !.freqs = analyze_text(fp[r].text, fp[r].config)]]
  /\ UNCHANGED <<files, argv, mn>>

DisplayStats(r) ==
  /\ fp[r].pc = "analyzed"
  /\ \E order \in iter_orders(fp[r].freqs) :
       fp' = [fp EXCEPT ![r] = [@ EXCEPT !.pc = "done",
                                          !.report = Some(display_stats(fp[r].freqs, order))]]
  /\ UNCHANGED <<files, argv, mn>>

(***************************************************************************)
(* Action: main() of main.rs, on the arguments of invocation 1             *)
(***************************************************************************)
Main ==
  /\ mn.pc = "start"
  /\ LET args == argv[1]
     IN  IF Len(args) < 2 THEN mn' = [mn EXCEPT !.pc = "exit1"]
         ELSE LET content == read_file(files, args[2])
              IN  IF content = None THEN mn' = [mn EXCEPT !.pc = "exit1"]
                  ELSE LET cfg == parse_flags(SubSeq(args, 3, Len(args)), NoConfig)
                           freqs == main_freqs(content[1], cfg.min_length, cfg.starts_with)
                       IN  \E order \in iter_orders(freqs) :
                             mn' = [pc |-> "done",
                                    min_length |-> cfg.min_length,
                                    starts_with |-> cfg.starts_with,
                                    freqs |-> freqs,
                                    report |-> Some(display_stats(freqs, order))]
  /\ UNCHANGED <<files, argv, fp>>

Next ==
  \/ \E r \in DOMAIN fp : FromArgs(r)
  \/ \E r \in DOMAIN fp : ReadFile(r)
  \/ \E r \in DOMAIN fp : AnalyzeText(r)
  \/ \E r \in DOMAIN fp : DisplayStats(r)
  \/ Main

Spec == Init /\ [][Next]_vars

NextPerm ==
  \/ \E r \in DOMAIN fp : FromArgs(r)
  \/ \E r \in DOMAIN fp : ReadFile(r)
  \/ \E r \in DOMAIN fp : AnalyzeText(r)
  \/ \E r \in DOMAIN fp : DisplayStats(r)

SpecPerm == InitPerm /\ [][NextPerm]_vars

(***************************************************************************)
(* Properties                                                              *)
(***************************************************************************)
\* the finished invocations: their flags, text, table and report
Analyzed ==
  {[min_length |-> fp[r].config.min_length, starts_with |-> fp[r].config.starts_with,
    cands |-> clean_words(split_whitespace(fp[r].text)),
    freqs |-> fp[r].freqs, report |-> fp[r].report, finished |-> fp[r].pc = "done"]
     : r \in {q \in DOMAIN fp : fp[q].pc \in {"analyzed", "done"}}}
  \cup
  {[min_length |-> mn.min_length, starts_with |-> mn.starts_with,
    cands |-> main_normalized(split_whitespace(files[argv[1][2]])),
    freqs |-> mn.freqs, report |-> mn.report, finished |-> TRUE]
     : d \in {q \in {1} : mn.pc = "done"}}

Finished == {run \in Analyzed : run.finished}

\* the positions of the normalized candidates that are non-empty and pass
\* the filter of the code
Survivors(run) ==
  {i \in 1..Len(run.cands) :
     run.cands[i] # <<>> /\ filter(run.min_length, run.starts_with, run.cands[i])}

RECURSIVE sum_over(_, _)
sum_over(S, f) ==
  IF S = {} THEN 0
  ELSE LET x == CHOOSE y \in S : TRUE IN f[x] + sum_over(S \ {x}, f)

\* the bytewise order of Strings
RECURSIVE lex_less(_, _)
lex_less(u, v) ==
  IF v = <<>> THEN FALSE
  ELSE IF u = <<>> THEN TRUE
  ELSE IF u[1] # v[1] THEN code_point(u[1]) < code_point(v[1])
  ELSE lex_less(Tail(u), Tail(v))

TiedMax(f) == {w \in DOMAIN f : \A v \in DOMAIN f : f[v] <= f[w]}

\* C1: the reported most common word is the lexicographically smallest of
\* the words that share the maximum count, whatever the iteration order of
\* the map
MostCommonDeterministic ==
  \A run \in Finished :
    run.report[1].most_common # None =>
      LET word == run.report[1].most_common[1].word
      IN  /\ word \in TiedMax(run.freqs)
          /\ \A w \in TiedMax(run.freqs) : ~lex_less(w, word)

\* C2: every key of the frequency table is non-empty, has alphanumeric
\* characters only and is fully lowercase
TokenInvariant ==
  \A run \in Analyzed :
    \A k \in DOMAIN run.freqs :
      /\ k # <<>>
      /\ \A i \in 1..Len(k) : is_alphanumeric(k[i]) /\ to_lowercase(k[i]) = <<k[i]>>

\* C3: with min_length = n a normalized token (that passes the prefix
\* constraint) is counted iff its length in characters is >= n; without
\* min_length every such token is counted
MinLengthInCharacters ==
  \A run \in Analyzed :
    \A i \in 1..Len(run.cands) :
      LET w == run.cands[i]
      IN  (w # <<>> /\ starts_correct(run.starts_with, w)) =>
            (w \in DOMAIN run.freqs <=>
               (run.min_length = None \/ Len(w) >= run.min_length[1]))

\* C4: with --starts-with C a normalized token (that passes the length
\* constraint) is counted iff its first character is the case-folded first
\* character of C; without the flag every such token is counted
StartPrefixCaseFolded ==
  \A run \in Analyzed :
    \A i \in 1..Len(run.cands) :
      LET w == run.cands[i]
      IN  (w # <<>> /\ long_enough(run.min_length, w)) =>
            (w \in DOMAIN run.freqs <=>
               (run.starts_with = None \/ w[1] = to_lowercase(run.starts_with[1])[1]))

\* C5: the table maps each token to the number of surviving positions that
\* hold it; its keys are the tokens of the surviving positions; every count
\* is >= 1
AggregationExactCount ==
  \A run \in Analyzed :
    /\ DOMAIN run.freqs = {run.cands[i] : i \in Survivors(run)}
    /\ \A w \in DOMAIN run.freqs :
         /\ run.freqs[w] = Cardinality({i \in Survivors(run) : run.cands[i] = w})
         /\ run.freqs[w] >= 1

\* C5 witness: a table with a token counted twice and another token
AggregationWitness ==
  \E run \in Analyzed :
    /\ Cardinality(DOMAIN run.freqs) >= 2
    /\ \E w \in DOMAIN run.freqs : run.freqs[w] >= 2

\* C6: total_words is the sum of the counts, unique_words the number of
\* keys, unique_words <= total_words, and both are 0 for the empty table
ReportTotals ==
  \A run \in Finished :
    LET rep == run.report[1]
    IN  /\ rep.total_words = sum_over(DOMAIN run.freqs, run.freqs)
        /\ rep.unique_words = Cardinality(DOMAIN run.freqs)
        /\ rep.unique_words <= rep.total_words
        /\ DOMAIN run.freqs = {} => rep.total_words = 0 /\ rep.unique_words = 0

\* C6 witness: a report over several keys with more words than keys
ReportTotalsWitness ==
  \E run \in Finished :
    /\ run.report[1].unique_words >= 2
    /\ run.report[1].total_words > run.report[1].unique_words

\* C7: most_common is absent iff the table is empty, a present one has a
\* count >= every count of the table; a text none of whose tokens survives
\* gives totals 0 and the "No words found" branch; a run whose arguments
\* name a readable file never exits with an error
EmptyResultIsNormal ==
  /\ \A run \in Finished :
       LET rep == run.report[1]
       IN  /\ rep.most_common = None <=> DOMAIN run.freqs = {}
           /\ rep.most_common # None =>
                /\ rep.most_common[1].word \in DOMAIN run.freqs
                /\ rep.most_common[1].count = run.freqs[rep.most_common[1].word]
                /\ \A w \in DOMAIN run.freqs : run.freqs[w] <= rep.most_common[1].count
                /\ rep.message = "Most common word"
           /\ Survivors(run) = {} =>
                /\ rep.total_words = 0
                /\ rep.unique_words = 0
                /\ rep.most_common = None
                /\ rep.message = "No words found after filtering."
  /\ \A r \in DOMAIN fp :
       fp[r].pc = "exit1" => (Len(argv[r]) < 2 \/ argv[r][2] \notin DOMAIN files)
  /\ mn.pc = "exit1" => (Len(argv[1]) < 2 \/ argv[1][2] \notin DOMAIN files)

\* C7 witness: a finished run over a text with words, all of them rejected
\* by the filter
EmptyResultWitness ==
  \E run \in Finished :
    /\ \E i \in 1..Len(run.cands) : run.cands[i] # <<>>
    /\ Survivors(run) = {}
    /\ run.report[1].message = "No words found after filtering."

\* C8: the tables of a text and of a permutation of its candidate tokens are
\* equal, and so are the reported most common word and count
OrderIndependence ==
  (\A r \in DOMAIN fp : fp[r].pc = "done") =>
    \A r, q \in DOMAIN fp :
      /\ fp[r].freqs = fp[q].freqs
      /\ fp[r].report[1].most_common = fp[q].report[1].most_common

\* C9: normalizing a normalized candidate token returns it unchanged
NormalizationIdempotent ==
  /\ \A r \in DOMAIN fp :
       fp[r].pc \in {"loaded", "analyzed", "done"} =>
         \A w \in {split_whitespace(fp[r].text)[i] : i \in 1..Len(split_whitespace(fp[r].text))} :
           clean_word(clean_word(w)) = clean_word(w)
  /\ mn.pc = "done" =>
       \A w \in {split_whitespace(files[argv[1][2]])[i] : i \in 1..Len(split_whitespace(files[argv[1][2]]))} :
         main_normalize(main_normalize(w)) = main_normalize(w)

\* C10: on the same text and flags the table of main.rs equals the table of
\* file_parser.rs
AnalyzersAgree ==
  (mn.pc = "done" /\ fp[1].pc \in {"analyzed", "done"}) => mn.freqs = fp[1].freqs

====
